---- MODULE Spec2Model ----
\* Raw-string assists of ra_assists (crates/ra_assists/src/assists/raw_string.rs):
\* make_raw_string, make_usual_string, add_hash, remove_hash and their helpers
\* count_hashes and find_usual_string_range.
\*
\* A string is a sequence of Unicode scalar values (integers).  Offsets and
\* lengths are BYTE offsets of the UTF-8 encoding, as in Rust's str, so that a
\* slice &s[a..b] can be out of range or off a char boundary, which panics.
EXTENDS Integers, Sequences, FiniteSets, TLC

VARIABLES
    doc,      \* the document text
    start,    \* byte offset where the token under the cursor starts
    end,      \* byte offset where it ends
    kind,     \* SyntaxKind of that token: "STRING" or "RAW_STRING"
    phase,    \* "first": no assist invoked yet; "second": one Edit applied; "done"
    log,      \* one record per assist invocation so far
    s,        \* count_hashes_test: the argument handed to count_hashes
    n_hashes  \* count_hashes_test: the value returned, -1 before the call

vars == <<doc, start, end, kind, phase, log, s, n_hashes>>

-----------------------------------------------------------------------------
\* Bounds of the model
MaxPayload == 3     \* longest token body drawn in Init (chars)
MaxFence == 2       \* largest number of leading hashes drawn in Init
MaxCountLen == 6    \* longest argument of count_hashes drawn in InitCount

\* Characters
NUL == 0
TAB == 9
NEWLINE == 10
CR == 13
SPACE == 32
QUOTE == 34
HASH == 35
APOSTROPHE == 39
DIGIT_0 == 48
SEMICOLON == 59
BACKSLASH == 92
UNDERSCORE == 95
LETTER_N == 110
LETTER_R == 114
LETTER_T == 116
LETTER_U == 117
LETTER_X == 120
BRACE_OPEN == 123
BRACE_CLOSE == 125
TILDE == 126
E_ACUTE == 233

Hex(d) == IF d < 10 THEN DIGIT_0 + d ELSE 87 + d

Min(S) == CHOOSE x \in S : \A y \in S : x <= y
Max(S) == CHOOSE x \in S : \A y \in S : x >= y

-----------------------------------------------------------------------------
\* str primitives

\* char::len_utf8
Utf8Len(c) == IF c < 128 THEN 1 ELSE IF c < 2048 THEN 2 ELSE IF c < 65536 THEN 3 ELSE 4

\* the length in bytes of the first k chars of str
RECURSIVE PrefixBytes(_, _)
PrefixBytes(str, k) == IF k <= 0 THEN 0 ELSE Utf8Len(str[k]) + PrefixBytes(str, k - 1)

\* str::len: the length in bytes
ByteLen(str) == PrefixBytes(str, Len(str))

\* byte offset of the k-th char (1-based) of str
OffsetOf(str, k) == PrefixBytes(str, k - 1)

None == -1

\* the number of chars of str that end at byte offset off, None when off is
\* past the end or inside a char; k chars, taking acc bytes, are already passed
RECURSIVE CharsUpTo(_, _, _, _)
CharsUpTo(str, off, k, acc) ==
    IF acc = off THEN k
    ELSE IF acc > off \/ k >= Len(str) THEN None
    ELSE CharsUpTo(str, off, k + 1, acc + Utf8Len(str[k + 1]))

CharsBefore(str, off) == CharsUpTo(str, off, 0, 0)

\* str::is_char_boundary
IsCharBoundary(str, off) == CharsBefore(str, off) # None

\* &str[a..b] panics unless a <= b <= len and both lie on char boundaries
SliceOk(str, a, b) ==
    /\ 0 <= a
    /\ a <= b
    /\ b <= ByteLen(str)
    /\ IsCharBoundary(str, a)
    /\ IsCharBoundary(str, b)

Slice(str, a, b) == SubSeq(str, CharsBefore(str, a) + 1, CharsBefore(str, b))

starts_with(str, pat) == Len(str) >= Len(pat) /\ SubSeq(str, 1, Len(pat)) = pat

\* str::find(char) / str::rfind(char): byte offset of the first / last match
find(str, c) ==
    LET hits == {k \in 1..Len(str) : str[k] = c}
    IN  IF hits = {} THEN None ELSE OffsetOf(str, Min(hits))

rfind(str, c) ==
    LET hits == {k \in 1..Len(str) : str[k] = c}
    IN  IF hits = {} THEN None ELSE OffsetOf(str, Max(hits))

\* the run of '#' at the front of sub: sub.chars().take_while(|c| *c == '#').count()
RECURSIVE take_while_hash(_)
take_while_hash(sub) ==
    IF sub # <<>> /\ Head(sub) = HASH THEN 1 + take_while_hash(Tail(sub)) ELSE 0

RECURSIVE Hashes(_)
Hashes(n) == IF n <= 0 THEN <<>> ELSE <<HASH>> \o Hashes(n - 1)

-----------------------------------------------------------------------------
\* Escaping primitives the assists call

\* char::to_digit(16), None for a char that is no hex digit
to_digit16(c) ==
    IF c >= 48 /\ c <= 57 THEN c - 48
    ELSE IF c >= 97 /\ c <= 102 THEN c - 87
    ELSE IF c >= 65 /\ c <= 70 THEN c - 55
    ELSE None

\* char::from_u32: no char above 0x10FFFF, none among the surrogates
IsScalarValue(v) == v <= 1114111 /\ ~(v >= 55296 /\ v <= 57343)

Failure == [ok |-> FALSE, ch |-> 0, rest |-> <<>>]

\* the digits of a \u{...} escape after the first one, up to the closing brace;
\* past 6 digits the value is no longer updated and the escape is overlong
RECURSIVE scan_unicode(_, _, _)
scan_unicode(chars, n_digits, value) ==
    IF chars = <<>> THEN Failure
    ELSE LET c == Head(chars) IN
         IF c = UNDERSCORE THEN scan_unicode(Tail(chars), n_digits, value)
         ELSE IF c = BRACE_CLOSE
              THEN IF n_digits > 6 \/ ~IsScalarValue(value) THEN Failure
                   ELSE [ok |-> TRUE, ch |-> value, rest |-> Tail(chars)]
         ELSE IF to_digit16(c) = None THEN Failure
         ELSE IF n_digits + 1 > 6 THEN scan_unicode(Tail(chars), n_digits + 1, value)
         ELSE scan_unicode(Tail(chars), n_digits + 1, value * 16 + to_digit16(c))

\* rustc_lexer::unescape::scan_escape, after the backslash was taken, in Mode::Str
scan_escape(chars) ==
    IF chars = <<>> THEN Failure
    ELSE LET second_char == Head(chars)
             rest == Tail(chars)
             simple(c) == [ok |-> TRUE, ch |-> c, rest |-> rest]
         IN  CASE second_char = QUOTE -> simple(QUOTE)
               [] second_char = LETTER_N -> simple(NEWLINE)
               [] second_char = LETTER_R -> simple(CR)
               [] second_char = LETTER_T -> simple(TAB)
               [] second_char = BACKSLASH -> simple(BACKSLASH)
               [] second_char = APOSTROPHE -> simple(APOSTROPHE)
               [] second_char = DIGIT_0 -> simple(NUL)
               [] second_char = LETTER_X ->
                    IF Len(rest) < 2 THEN Failure
                    ELSE LET hi == to_digit16(rest[1])
                             lo == to_digit16(rest[2])
                         IN  IF hi = None \/ lo = None \/ hi * 16 + lo > 127 THEN Failure
                             ELSE [ok |-> TRUE, ch |-> hi * 16 + lo, rest |-> SubSeq(rest, 3, Len(rest))]
               [] second_char = LETTER_U ->
                    IF Len(rest) < 2 \/ rest[1] # BRACE_OPEN THEN Failure
                    ELSE IF to_digit16(rest[2]) = None THEN Failure
                    ELSE scan_unicode(SubSeq(rest, 3, Len(rest)), 1, to_digit16(rest[2]))
               [] OTHER -> Failure

\* skips the ASCII whitespace that follows a backslash-newline
RECURSIVE skip_ascii_whitespace(_)
skip_ascii_whitespace(chars) ==
    IF chars # <<>> /\ Head(chars) \in {SPACE, TAB, NEWLINE, CR}
    THEN skip_ascii_whitespace(Tail(chars))
    ELSE chars

\* rustc_lexer::unescape::unescape_str with the callback of make_raw_string:
\* Ok(c) is pushed on `unescaped`, any Err(_) sets `error`.  The assist returns
\* None once `error` is set, whatever follows, so the scan stops at the first Err.
RECURSIVE unescape_loop(_, _)
unescape_loop(chars, unescaped) ==
    IF chars = <<>> THEN [error |-> FALSE, unescaped |-> unescaped]
    ELSE LET first_char == Head(chars) IN
         IF first_char = BACKSLASH
         THEN IF Len(chars) >= 2 /\ chars[2] = NEWLINE
              THEN unescape_loop(skip_ascii_whitespace(Tail(chars)), unescaped)
              ELSE LET r == scan_escape(Tail(chars))
                   IN  IF r.ok THEN unescape_loop(r.rest, Append(unescaped, r.ch))
                       ELSE [error |-> TRUE, unescaped |-> unescaped]
         ELSE IF first_char \in {NEWLINE, TAB}
              THEN unescape_loop(Tail(chars), Append(unescaped, first_char))
         ELSE IF first_char \in {CR, QUOTE}
              THEN [error |-> TRUE, unescaped |-> unescaped]
         ELSE unescape_loop(Tail(chars), Append(unescaped, first_char))

unescape_str(inside_str) == unescape_loop(inside_str, <<>>)

\* the lower-case hex digits of v, at least one
RECURSIVE hex_digits(_)
hex_digits(v) == IF v < 16 THEN <<Hex(v)>> ELSE Append(hex_digits(v \div 16), Hex(v % 16))

\* char::escape_default
escape_default_char(c) ==
    CASE c = TAB -> <<BACKSLASH, LETTER_T>>
      [] c = CR -> <<BACKSLASH, LETTER_R>>
      [] c = NEWLINE -> <<BACKSLASH, LETTER_N>>
      [] c = APOSTROPHE -> <<BACKSLASH, APOSTROPHE>>
      [] c = QUOTE -> <<BACKSLASH, QUOTE>>
      [] c = BACKSLASH -> <<BACKSLASH, BACKSLASH>>
      [] OTHER -> IF c >= SPACE /\ c <= TILDE THEN <<c>>
                  ELSE <<BACKSLASH, LETTER_U, BRACE_OPEN>> \o hex_digits(c) \o <<BRACE_CLOSE>>

\* str::escape_default().to_string()
RECURSIVE escape_default(_)
escape_default(str) ==
    IF str = <<>> THEN <<>>
    ELSE escape_default_char(Head(str)) \o escape_default(Tail(str))

-----------------------------------------------------------------------------
\* Helpers of raw_string.rs

\* s.match_indices("\"#"): the places (1-based char positions) of a quote that
\* is immediately followed by a hash
match_indices(str) == {k \in 1..(Len(str) - 1) : str[k] = QUOTE /\ str[k + 1] = HASH}

\* the for loop of count_hashes over the matches not yet visited, in order
RECURSIVE count_hashes_loop(_, _, _)
count_hashes_loop(str, idxs, max_hash_streak) ==
    IF idxs = {} THEN max_hash_streak
    ELSE LET idx == Min(idxs)
             sub == SubSeq(str, idx + 1, Len(str))
             nb_hash == take_while_hash(sub)
         IN  count_hashes_loop(str, idxs \ {idx},
                 IF nb_hash > max_hash_streak THEN nb_hash ELSE max_hash_streak)

\* a slip: the streak of the last match is kept instead of the longest one
RECURSIVE count_hashes_last_loop(_, _, _)
count_hashes_last_loop(str, idxs, max_hash_streak) ==
    IF idxs = {} THEN max_hash_streak
    ELSE LET idx == Min(idxs)
             sub == SubSeq(str, idx + 1, Len(str))
         IN  count_hashes_last_loop(str, idxs \ {idx}, take_while_hash(sub))

count_hashes_last(str) == count_hashes_last_loop(str, match_indices(str), 0)

count_hashes(str) == count_hashes_loop(str, match_indices(str), 0)

\* find_usual_string_range: None, or the byte offsets of the first and last quote
find_usual_string_range(str) ==
    LET left_quote == find(str, QUOTE)
        right_quote == rfind(str, QUOTE)
    IN  IF left_quote = None \/ right_quote = None THEN <<>>
        ELSE IF left_quote = right_quote THEN <<>>
        ELSE <<left_quote, right_quote>>

-----------------------------------------------------------------------------
\* The language's literals, as the host's lexer delimits them

\* number of hashes between the r and the opening quote of a raw token
FenceOf(text) == take_while_hash(Tail(text))

HasOpeningQuote(text) ==
    Len(text) >= FenceOf(text) + 2 /\ text[FenceOf(text) + 2] = QUOTE

\* the places in text, after the opening quote, of a quote followed by n hashes
ClosersOf(text, n) ==
    {k \in (n + 3)..Len(text) :
        /\ text[k] = QUOTE
        /\ k + n <= Len(text)
        /\ \A j \in 1..n : text[k + j] = HASH}

\* text is exactly one terminated raw literal r #^n " payload " #^n: the first
\* quote followed by n hashes is the one that ends the text
IsRawLiteral(text) ==
    /\ text # <<>>
    /\ Head(text) = LETTER_R
    /\ HasOpeningQuote(text)
    /\ ClosersOf(text, FenceOf(text)) # {}
    /\ Min(ClosersOf(text, FenceOf(text))) + FenceOf(text) = Len(text)

RawPayload(text) ==
    SubSeq(text, FenceOf(text) + 3, Min(ClosersOf(text, FenceOf(text))) - 1)

RawText(n, payload) ==
    <<LETTER_R>> \o Hashes(n) \o <<QUOTE>> \o payload \o <<QUOTE>> \o Hashes(n)

\* place of the quote that closes a plain literal whose body starts at place k,
\* 0 when there is none; a backslash takes a following backslash or quote with it
RECURSIVE PlainCloser(_, _)
PlainCloser(text, k) ==
    IF k > Len(text) THEN 0
    ELSE IF text[k] = QUOTE THEN k
    ELSE IF text[k] = BACKSLASH /\ k < Len(text) /\ text[k + 1] \in {BACKSLASH, QUOTE}
         THEN PlainCloser(text, k + 2)
    ELSE PlainCloser(text, k + 1)

\* text is exactly one terminated plain literal " payload "
IsPlainLiteral(text) ==
    /\ Len(text) >= 2
    /\ Head(text) = QUOTE
    /\ PlainCloser(text, 2) = Len(text)

PlainPayload(text) == SubSeq(text, 2, Len(text) - 1)

\* a token the lexer can hand over with this kind, `rest` being what follows it
\* in the document: a terminated literal, or an unterminated one that runs to
\* the end of the document (for a raw one also r#.. with no quote after it)
IsHostToken(k, text, rest) ==
    /\ text # <<>>
    /\ \/ /\ k = "STRING"
          /\ Head(text) = QUOTE
          /\ \/ IsPlainLiteral(text)
             \/ PlainCloser(text, 2) = 0 /\ rest = <<>>
       \/ /\ k = "RAW_STRING"
          /\ Head(text) = LETTER_R
          /\ \/ IsRawLiteral(text)
             \/ /\ HasOpeningQuote(text)
                /\ ClosersOf(text, FenceOf(text)) = {}
                /\ rest = <<>>
             \/ /\ FenceOf(text) >= 1
                /\ Len(text) = FenceOf(text) + 1
                /\ IF rest = <<>> THEN TRUE ELSE Head(rest) \notin {HASH, QUOTE}

\* the kind the lexer gives a token by its first char
KindOf(text) == IF text # <<>> /\ Head(text) = LETTER_R THEN "RAW_STRING" ELSE "STRING"

-----------------------------------------------------------------------------
\* Edits: an atom replaces the bytes [from, to) of the document by text; an
\* insertion is the atom with from = to

Replace(from, to, text) == [from |-> from, to |-> to, text |-> text]
Insert(at, text) == [from |-> at, to |-> at, text |-> text]

\* the host applies the atoms of one Edit, all offsets being those of the
\* original document: the atoms are in offset order, the last is applied first
RECURSIVE ApplyEdits(_, _)
ApplyEdits(text, atoms) ==
    IF atoms = <<>> THEN text
    ELSE LET a == atoms[Len(atoms)]
             applied == Slice(text, 0, a.from) \o a.text \o Slice(text, a.to, ByteLen(text))
         IN  ApplyEdits(applied, SubSeq(atoms, 1, Len(atoms) - 1))

\* what an assist returns: None, an Assist with its Edit, or a panic
NotApplicable == [tag |-> "NotApplicable", atoms |-> <<>>]
Assist(atoms) == [tag |-> "Edit", atoms |-> atoms]
Panic == [tag |-> "Panic", atoms |-> <<>>]

-----------------------------------------------------------------------------
\* The four assists.  k and text are the kind and text of the token under the
\* cursor, [from, to) its range in the document.  ctx.find_token_at_offset(K)
\* yields the token only when its kind is K.  The closure handed to
\* ctx.add_assist is run, as it is when the assist is applied.

\* the slip of sizing the fence by the longest streak itself
hashes_without_extra(unescaped) == Hashes(count_hashes(unescaped))

\* max_hash_streak + 1 hashes; String::with_capacity allocates exactly the
\* requested capacity, which the loop then fills
hashes(unescaped) == Hashes(count_hashes(unescaped) + 1)

\* the slip of leaving out the closing fence
raw_replacement_open(fence, unescaped) ==
    <<LETTER_R>> \o fence \o <<QUOTE>> \o unescaped \o <<QUOTE>>

\* format!("r{}\"{}\"{}", hashes, unescaped, hashes)
raw_replacement(fence, unescaped) ==
    <<LETTER_R>> \o fence \o <<QUOTE>> \o unescaped \o <<QUOTE>> \o fence

make_raw_string(k, text, from, to) ==
    IF k # "STRING" THEN NotApplicable
    ELSE LET usual_string_range == find_usual_string_range(text) IN
         IF usual_string_range = <<>> THEN NotApplicable
         ELSE LET start_of_inside == usual_string_range[1] + 1
                  end_of_inside == usual_string_range[2]
              IN  IF ~SliceOk(text, start_of_inside, end_of_inside) THEN Panic
                  ELSE LET inside_str == Slice(text, start_of_inside, end_of_inside)
                           u == unescape_str(inside_str)
                       IN  IF u.error THEN NotApplicable
                           ELSE Assist(<<Replace(from, to,
                                    raw_replacement(hashes(u.unescaped), u.unescaped))>>)

\* the slip of leaving the payload unescaped
usual_replacement_verbatim(inside_str) == <<QUOTE>> \o inside_str \o <<QUOTE>>

\* format!("\"{}\"", inside_str.escape_default().to_string())
usual_replacement(inside_str) == <<QUOTE>> \o escape_default(inside_str) \o <<QUOTE>>

make_usual_string(k, text, from, to) ==
    IF k # "RAW_STRING" THEN NotApplicable
    ELSE LET usual_string_range == find_usual_string_range(text) IN
         IF usual_string_range = <<>> THEN NotApplicable
         ELSE LET start_of_inside == usual_string_range[1] + 1
                  end_of_inside == usual_string_range[2]
              IN  IF ~SliceOk(text, start_of_inside, end_of_inside) THEN Panic
                  ELSE Assist(<<Replace(from, to,
                           usual_replacement(Slice(text, start_of_inside, end_of_inside)))>>)

\* the slip of inserting the leading hash at the start of the token
add_hash_before_r(k, text, from, to) ==
    IF k # "RAW_STRING" THEN NotApplicable
    ELSE Assist(<<Insert(from, <<HASH>>), Insert(to, <<HASH>>)>>)

add_hash(k, text, from, to) ==
    IF k # "RAW_STRING" THEN NotApplicable
    ELSE Assist(<<Insert(from + Utf8Len(LETTER_R), <<HASH>>), Insert(to, <<HASH>>)>>)

remove_hash(k, text, from, to) ==
    IF k # "RAW_STRING" THEN NotApplicable
    ELSE IF starts_with(text, <<LETTER_R, QUOTE>>) THEN NotApplicable
    ELSE IF ~SliceOk(text, 2, ByteLen(text) - 1) THEN Panic
    ELSE LET result == Slice(text, 2, ByteLen(text) - 1) IN
         IF starts_with(result, <<QUOTE>>)
         THEN IF ~SliceOk(result, 1, ByteLen(result) - 1) THEN Panic
              ELSE LET internal_str == Slice(result, 1, ByteLen(result) - 1)
                   IN  Assist(<<Replace(from, to,
                           <<LETTER_R>> \o usual_replacement(internal_str))>>)
         ELSE Assist(<<Replace(from, to, <<LETTER_R>> \o result)>>)

-----------------------------------------------------------------------------
\* The state machine: the host hands the token under the cursor to an assist
\* and applies the Edit it returns; the token then under the cursor is the
\* replaced text, which a second assist may be invoked on.

Alphabet == {QUOTE, HASH, BACKSLASH, LETTER_N, NEWLINE, E_ACUTE}

Bodies == UNION {[1..n -> Alphabet] : n \in 0..MaxPayload}

PlainTokens ==
    {<<QUOTE>> \o b : b \in Bodies} \cup {<<QUOTE>> \o b \o <<QUOTE>> : b \in Bodies}

RawTokens ==
    UNION {
        {<<LETTER_R>> \o Hashes(n)}
        \cup {<<LETTER_R>> \o Hashes(n) \o <<QUOTE>> \o b : b \in Bodies}
        \cup {RawText(n, b) : b \in Bodies}
      : n \in 0..MaxFence}

\* what follows the token in the document: a terminated literal is followed by
\* a semicolon, any other token runs to the end of the document
FollowedBy(t) == IF IsPlainLiteral(t) \/ IsRawLiteral(t) THEN <<SEMICOLON>> ELSE <<>>

Token == Slice(doc, start, end)
Rest == Slice(doc, end, ByteLen(doc))

Init ==
    /\ \E t \in PlainTokens \cup RawTokens :
          /\ IsHostToken(KindOf(t), t, FollowedBy(t))
          /\ doc = <<SPACE>> \o t \o FollowedBy(t)
          /\ start = ByteLen(<<SPACE>>)
          /\ end = ByteLen(<<SPACE>>) + ByteLen(t)
          /\ kind = KindOf(t)
    /\ phase = "first"
    /\ log = <<>>
    /\ s = <<>>
    /\ n_hashes = None

\* the host invokes `op` on the token, and applies the Edit it returns if any
Invoke(op, token, rest, r) ==
    /\ phase \in {"first", "second"}
    /\ IsHostToken(kind, token, rest)
    /\ \E out \in {IF r.tag = "Edit" THEN ApplyEdits(doc, r.atoms) ELSE doc} :
        \E outEnd \in {end + ByteLen(out) - ByteLen(doc)} :
          \E outToken \in {Slice(out, start, outEnd)} :
            /\ doc' = out
            /\ end' = outEnd
            /\ kind' = IF r.tag = "Edit" THEN KindOf(outToken) ELSE kind
            /\ log' = Append(log, [op |-> op, kind |-> kind, text |-> token, doc |-> doc,
                                   from |-> start, to |-> end, tag |-> r.tag,
                                   atoms |-> r.atoms, out |-> outToken, outDoc |-> out])
    /\ phase' = IF r.tag = "Edit" /\ phase = "first" THEN "second" ELSE "done"
    /\ UNCHANGED <<start, s, n_hashes>>

MakeRawString ==
    \E token \in {Token} :
        \E r \in {make_raw_string(kind, token, start, end)} :
            Invoke("make_raw_string", token, Rest, r)

MakeUsualString ==
    \E token \in {Token} :
        \E r \in {make_usual_string(kind, token, start, end)} :
            Invoke("make_usual_string", token, Rest, r)

AddHash ==
    \E token \in {Token} :
        \E r \in {add_hash(kind, token, start, end)} :
            Invoke("add_hash", token, Rest, r)

RemoveHash ==
    \E token \in {Token} :
        \E r \in {remove_hash(kind, token, start, end)} :
            Invoke("remove_hash", token, Rest, r)

Next == MakeRawString \/ MakeUsualString \/ AddHash \/ RemoveHash

Spec == Init /\ [][Next]_vars

\* count_hashes on its own, on arguments longer than a token body
CountAlphabet == {QUOTE, HASH, LETTER_N}

InitCount ==
    /\ s \in UNION {[1..n -> CountAlphabet] : n \in 0..MaxCountLen}
    /\ n_hashes = None
    /\ doc = <<>>
    /\ start = 0
    /\ end = 0
    /\ kind = "STRING"
    /\ phase = "done"
    /\ log = <<>>

CountHashes ==
    /\ n_hashes = None
    /\ n_hashes' = count_hashes(s)
    /\ UNCHANGED <<doc, start, end, kind, phase, log, s>>

NextCount == CountHashes

SpecCount == InitCount /\ [][NextCount]_vars

-----------------------------------------------------------------------------
\* Reference notions the properties are stated with

Steps == 1..Len(log)

\* str has a quote that is followed by (at least) n hashes
HasQuoteThenHashes(str, n) ==
    \E k \in 1..Len(str) :
        /\ str[k] = QUOTE
        /\ k + n <= Len(str)
        /\ \A j \in 1..n : str[k + j] = HASH

\* the longest run of hashes right after a quote, 0 when no quote has one
RefMaxStreak(str) == Max({0} \cup {n \in 1..Len(str) : HasQuoteThenHashes(str, n)})

QuoteCount(str) == Cardinality({k \in 1..Len(str) : str[k] = QUOTE})

\* the characters a terminated plain literal denotes
Decoded(text) == unescape_str(PlainPayload(text))

\* e is an invocation of make_raw_string on a terminated plain literal whose
\* payload unescapes without error
ToRawCase(e) ==
    /\ e.op = "make_raw_string"
    /\ e.kind = "STRING"
    /\ IsPlainLiteral(e.text)
    /\ ~Decoded(e.text).error

\* e is an invocation of op on a well-formed raw literal
RawCase(e, op) ==
    /\ e.op = op
    /\ e.kind = "RAW_STRING"
    /\ IsRawLiteral(e.text)

\* C1: make_raw_string on a plain literal with an unescapable payload yields a
\* raw literal, and make_usual_string applied to that raw token yields a plain
\* literal whose payload decodes to the same characters as the original one.
C1_RoundTripToRawToPlain ==
    \A i \in Steps :
        ToRawCase(log[i]) =>
            /\ log[i].tag = "Edit"
            /\ IsRawLiteral(log[i].out)
            /\ (i < Len(log) /\ log[i + 1].op = "make_usual_string") =>
                  /\ log[i + 1].tag = "Edit"
                  /\ IsPlainLiteral(log[i + 1].out)
                  /\ ~Decoded(log[i + 1].out).error
                  /\ Decoded(log[i + 1].out).unescaped = Decoded(log[i].text).unescaped

C1_Witness ==
    /\ Len(log) = 2
    /\ ToRawCase(log[1])
    /\ log[2].op = "make_usual_string"
    /\ log[2].tag = "Edit"
    /\ log[2].out # log[1].text
    /\ QUOTE \in {Decoded(log[1].text).unescaped[k] : k \in 1..Len(Decoded(log[1].text).unescaped)}

\* C2: add_hash followed by remove_hash gives back the original raw token text,
\* for every well-formed raw literal, whatever its payload.
C2_GrowThenShrinkIsIdentity ==
    \A i \in Steps :
        (RawCase(log[i], "add_hash") /\ i < Len(log) /\ log[i + 1].op = "remove_hash") =>
            /\ log[i + 1].tag = "Edit"
            /\ log[i + 1].out = log[i].text

\* C3 as stated: the fence make_raw_string emits is the smallest non-negative N
\* such that the decoded payload has no quote followed by N hashes.
C3_FenceIsSmallestNonNegative ==
    \A i \in Steps :
        (ToRawCase(log[i]) /\ log[i].tag = "Edit") =>
            LET D == Decoded(log[i].text).unescaped
                N == FenceOf(log[i].out)
            IN  /\ ~HasQuoteThenHashes(D, N)
                /\ RefMaxStreak(D) < N
                /\ \A M \in 0..(N - 1) : HasQuoteThenHashes(D, M)

\* C3 as amended: the fence N that make_raw_string emits is the smallest
\* POSITIVE integer such that the decoded payload has no quote followed by N
\* hashes, and exceeds the longest hash streak; it is the smallest non-negative
\* one exactly when the payload has a quote, and is 1 (not 0) when it has none.
C3_FenceIsSmallestPositive ==
    \A i \in Steps :
        (ToRawCase(log[i]) /\ log[i].tag = "Edit") =>
            LET D == Decoded(log[i].text).unescaped
                N == FenceOf(log[i].out)
            IN  /\ N >= 1
                /\ ~HasQuoteThenHashes(D, N)
                /\ RefMaxStreak(D) < N
                /\ \A M \in 1..(N - 1) : HasQuoteThenHashes(D, M)
                /\ HasQuoteThenHashes(D, 0) => \A M \in 0..(N - 1) : HasQuoteThenHashes(D, M)
                /\ ~HasQuoteThenHashes(D, 0) => N = 1

C3_Witness ==
    \E i \in Steps :
        /\ ToRawCase(log[i])
        /\ log[i].tag = "Edit"
        /\ FenceOf(log[i].out) = 2
        /\ HasQuoteThenHashes(Decoded(log[i].text).unescaped, 1)

\* C4: on a token whose text has exactly one quote, every assist returns
\* NotApplicable.
C4_OneQuoteIsNotApplicable ==
    \A i \in Steps : QuoteCount(log[i].text) = 1 => log[i].tag = "NotApplicable"

\* C5: no assist ever panics: each ends with NotApplicable or one Edit.
C5_NeverPanics ==
    \A i \in Steps : log[i].tag # "Panic"

\* C6: make_raw_string on a plain literal whose payload unescapes to D emits one
\* Edit replacing the whole token by r, N hashes, a quote, D, a quote, N hashes,
\* with N = maxHashStreak(D) + 1.
C6_ToRawShape ==
    \A i \in Steps :
        ToRawCase(log[i]) =>
            LET D == Decoded(log[i].text).unescaped
                N == RefMaxStreak(D) + 1
            IN  /\ log[i].tag = "Edit"
                /\ log[i].atoms = <<Replace(log[i].from, log[i].to, RawText(N, D))>>
                /\ log[i].out = RawText(N, D)
                /\ log[i].outDoc = Slice(log[i].doc, 0, log[i].from) \o RawText(N, D)
                                     \o Slice(log[i].doc, log[i].to, ByteLen(log[i].doc))

C6_Witness ==
    \E i \in Steps :
        /\ ToRawCase(log[i])
        /\ log[i].tag = "Edit"
        /\ RefMaxStreak(Decoded(log[i].text).unescaped) = 1
        /\ Decoded(log[i].text).unescaped # PlainPayload(log[i].text)

\* C7: remove_hash on r#"P"# with a quote in P yields a plain literal (no r
\* prefix) that denotes the characters of P.
C7_ShrinkToPlainWhenQuoted ==
    \A i \in Steps :
        (/\ RawCase(log[i], "remove_hash")
         /\ FenceOf(log[i].text) = 1
         /\ HasQuoteThenHashes(RawPayload(log[i].text), 0)) =>
            /\ log[i].tag = "Edit"
            /\ IsPlainLiteral(log[i].out)
            /\ ~Decoded(log[i].out).error
            /\ Decoded(log[i].out).unescaped = RawPayload(log[i].text)

\* C8: remove_hash on a raw literal with fence N >= 2 and payload P yields
\* r, N-1 hashes, a quote, P, a quote, N-1 hashes, and that text is a valid raw
\* literal whose payload is P.
C8_ShrinkLeavesValidRaw ==
    \A i \in Steps :
        (RawCase(log[i], "remove_hash") /\ FenceOf(log[i].text) >= 2) =>
            LET N == FenceOf(log[i].text)
                P == RawPayload(log[i].text)
            IN  /\ log[i].tag = "Edit"
                /\ log[i].out = RawText(N - 1, P)
                /\ IsRawLiteral(log[i].out)
                /\ RawPayload(log[i].out) = P

\* C9: add_hash on a raw literal with fence N and payload P yields r, N+1
\* hashes, a quote, P, a quote, N+1 hashes, leaves the rest of the document as
\* it was, and the result is a raw literal with payload P.
C9_GrowAddsOneHashEachSide ==
    \A i \in Steps :
        RawCase(log[i], "add_hash") =>
            LET N == FenceOf(log[i].text)
                P == RawPayload(log[i].text)
            IN  /\ log[i].tag = "Edit"
                /\ log[i].out = RawText(N + 1, P)
                /\ log[i].outDoc = Slice(log[i].doc, 0, log[i].from) \o RawText(N + 1, P)
                                     \o Slice(log[i].doc, log[i].to, ByteLen(log[i].doc))
                /\ IsRawLiteral(log[i].out)
                /\ RawPayload(log[i].out) = P

C9_Witness ==
    \E i \in Steps :
        /\ RawCase(log[i], "add_hash")
        /\ log[i].tag = "Edit"
        /\ FenceOf(log[i].text) = 1
        /\ HasQuoteThenHashes(RawPayload(log[i].text), 0)
        /\ E_ACUTE \in {log[i].text[k] : k \in 1..Len(log[i].text)}

\* C10: count_hashes(s) is the longest run of hashes right after a quote of s,
\* and 0 when no quote of s is followed by a hash.
C10_CountHashesIsMaxStreak ==
    n_hashes # None => n_hashes = RefMaxStreak(s)

C10_Witness ==
    /\ n_hashes = 2
    /\ Cardinality(match_indices(s)) = 2
    /\ s[Len(s)] = HASH
    /\ s[1] = HASH

====
